---- MODULE Spec2Model ----
(***************************************************************************)
(* Model of crates/bevy_color_blindness/src/lib.rs: the colour-mixing      *)
(* table, the one-shot construction of the post-processing pass for a      *)
(* camera that gained ColorBlindnessCamera, the per-frame synchronisation  *)
(* of the material with the component, and the resize of the offscreen     *)
(* texture.  The three systems run once per frame in the same stage, in    *)
(* any order, and the commands they queue are applied when the stage ends. *)
(***************************************************************************)
EXTENDS Integers, Sequences, FiniteSets, TLC

----------------------------------------------------------------------------
(* Bounds of the model *)

\* width, in bits, of the camera priority (isize) in the model
IsizeBits == 6
\* applications of cycle to one starting mode in the evaluation of the table
MaxSteps == 9
\* window widths range over 1..MaxDim
MaxDim == 2
\* component writes, window resizes and asset removals in one run of the
\* application, after which only the frames go on
MaxInputs == 2

\* the camera entities that can gain ColorBlindnessCamera
Cams == {"camA", "camB"}

----------------------------------------------------------------------------
(* The mode table *)

ModeOrder ==
    << "Normal", "Protanopia", "Protanomaly", "Deuteranopia", "Deuteranomaly",
       "Tritanopia", "Tritanomaly", "Achromatopsia", "Achromatomaly" >>

ColorBlindnessMode == { ModeOrder[i] : i \in 1..Len(ModeOrder) }

\* a component of a Vec3 is kept in units of 0.00001, so 1.0 is One
One == 100000

ColorBlindnessPercentages(red, green, blue) ==
    [red |-> red, green |-> green, blue |-> blue]

\* a table whose every mode mixes the channels as Achromatopsia does
percentagesAllGrey(mode) ==
    ColorBlindnessPercentages(<<29900, 58700, 11400>>,
                              <<29900, 58700, 11400>>,
                              <<29900, 58700, 11400>>)

percentages(mode) ==
    CASE mode = "Normal" ->
           ColorBlindnessPercentages(<<One, 0, 0>>, <<0, One, 0>>, <<0, 0, One>>)
      [] mode = "Protanopia" ->
           ColorBlindnessPercentages(<<56667, 43333, 0>>,
                                     <<55833, 44167, 0>>,
                                     <<0, 24167, 75833>>)
      [] mode = "Protanomaly" ->
           ColorBlindnessPercentages(<<81667, 18333, 0>>,
                                     <<33333, 66667, 0>>,
                                     <<0, 12500, 87500>>)
      [] mode = "Deuteranopia" ->
           ColorBlindnessPercentages(<<62500, 37500, 0>>,
                                     <<70000, 30000, 0>>,
                                     <<0, 30000, 70000>>)
      [] mode = "Deuteranomaly" ->
           ColorBlindnessPercentages(<<80000, 20000, 0>>,
                                     <<25833, 74167, 0>>,
                                     <<0, 14167, 85833>>)
      [] mode = "Tritanopia" ->
           ColorBlindnessPercentages(<<95000, 50000, 0>>,
                                     <<0, 43333, 56667>>,
                                     <<0, 47500, 52500>>)
      [] mode = "Tritanomaly" ->
           ColorBlindnessPercentages(<<96667, 33330, 0>>,
                                     <<0, 73333, 26667>>,
                                     <<0, 18333, 81667>>)
      [] mode = "Achromatopsia" ->
           ColorBlindnessPercentages(<<29900, 58700, 11400>>,
                                     <<29900, 58700, 11400>>,
                                     <<29900, 58700, 11400>>)
      [] mode = "Achromatomaly" ->
           ColorBlindnessPercentages(<<61800, 32000, 62000>>,
                                     <<16300, 77500, 62000>>,
                                     <<16300, 32000, 51600>>)

\* a successor that stays on the last mode instead of wrapping to the first
cycleWithoutWrap(mode) ==
    LET i == CHOOSE k \in 1..Len(ModeOrder) : ModeOrder[k] = mode
    IN  ModeOrder[IF i = Len(ModeOrder) THEN i ELSE i + 1]

cycle(mode) ==
    CASE mode = "Normal" -> "Protanopia"
      [] mode = "Protanopia" -> "Protanomaly"
      [] mode = "Protanomaly" -> "Deuteranopia"
      [] mode = "Deuteranopia" -> "Deuteranomaly"
      [] mode = "Deuteranomaly" -> "Tritanopia"
      [] mode = "Tritanopia" -> "Tritanomaly"
      [] mode = "Tritanomaly" -> "Achromatopsia"
      [] mode = "Achromatopsia" -> "Achromatomaly"
      [] mode = "Achromatomaly" -> "Normal"

RowSum(v) == v[1] + v[2] + v[3]

\* what is left of a material that was removed from Assets
Removed ==
    [source_image |-> 0,
     percentages |-> ColorBlindnessPercentages(<< >>, << >>, << >>)]

----------------------------------------------------------------------------
(* The world the three systems act on *)

VARIABLES
    windows,         \* Windows: window id -> physical size <<width, height>>
    images,          \* Assets<Image>: handle -> image; handles are 1..Len
    meshes,          \* Assets<Mesh>: number of meshes added, handles 1..meshes
    materials,       \* Assets<ColorBlindnessMaterial>: handle -> material
    tagged,          \* camera entity has a ColorBlindnessCamera component
    cbc,             \* the ColorBlindnessCamera component: mode, enabled
    camTarget,       \* Camera::target of the entity
    camPriority,     \* Camera::priority of the entity
    materialHandle,  \* Handle<ColorBlindnessMaterial> component, or NoHandle
    showUi,          \* UiCameraConfig::show_ui of the entity
    fitToWindow,     \* FitToWindowSize component, or NoFit
    addedFlag,       \* Added<ColorBlindnessCamera> as the setup system sees it
    changedFlag,     \* Changed<ColorBlindnessCamera> as update_percentages sees it
    commands,        \* commands queued in this stage, applied when it ends
    draws,           \* spawned MaterialMesh2dBundle entities, in spawn order
    relays,          \* spawned post-processing Camera2dBundle entities
    resizeEvents,    \* WindowResized events not yet read
    imageEvents,     \* AssetEvent<Image> sent in the current frame
    ran,             \* systems that already ran in the current stage
    written,         \* cameras whose material was written in the current frame
    valueChanged,    \* mode or enabled differs from the value last written
    panicked,        \* "none", or the panic that ended the app
    panicCam,        \* camera whose iteration panicked, or NoCam
    nInputs,         \* component writes, resizes and removals so far
    tStart, tMode, tSteps, tRow, tVec, tSum   \* evaluation of the mode table

worldVars ==
    << windows, images, meshes, materials, tagged, cbc,
       camTarget, camPriority, materialHandle, showUi, fitToWindow, addedFlag,
       changedFlag, commands, draws, relays, resizeEvents, imageEvents, ran,
       written, valueChanged, panicked, panicCam, nInputs >>

tableVars == << tStart, tMode, tSteps, tRow, tVec, tSum >>

vars == << worldVars, tableVars >>

NoHandle == 0
NoFit == [image |-> 0, window_id |-> -1]
NoCam == "none"
NoTarget == [kind |-> "None", id |-> 0]
NoSize == << >>

\* WindowId::primary()
PrimaryWindow == 0
WindowIds == {PrimaryWindow, 1}
\* a window id no window of Windows has
MissingWindow == 2
\* the image the application owns before any camera is tagged, and a handle
\* that resolves to no image
UserImage == 1
MissingImage == 0

Sizes == { <<w, 1>> : w \in 1..MaxDim }
InitialWindowSize == <<1, 1>>
UserImageSize == <<MaxDim, 2>>

Window(id) == [kind |-> "Window", id |-> id]
Image(h) == [kind |-> "Image", id |-> h]

Targets ==
    { Window(w) : w \in WindowIds \cup {MissingWindow} }
      \cup { Image(h) : h \in {UserImage, MissingImage} }

IsizeMax == 2 ^ (IsizeBits - 1) - 1
IsizeMin == - (2 ^ (IsizeBits - 1))

\* camera.priority + 10 as a release build computes it (two's complement)
WrappingAdd(a, b) ==
    ((a + b - IsizeMin) % (2 ^ IsizeBits)) + IsizeMin

\* the modes the tagged cameras use: no simulation, and one simulated deficiency
PipelineModes == {"Normal", "Protanopia"}

CameraValues == [mode : PipelineModes, enabled : BOOLEAN]

\* #[derive(Default)]: mode Normal, enabled false
DefaultCamera == [mode |-> "Normal", enabled |-> FALSE]
Simulating == [mode |-> "Protanopia", enabled |-> TRUE]

\* the cameras the application tags: a camera of the primary window with any
\* value or with a priority at an end of the range, a camera of another
\* window, a camera of an image, and cameras whose target does not resolve
AddInputs ==
    { [target |-> Window(PrimaryWindow), priority |-> 0, value |-> v] :
        v \in CameraValues }
      \cup { [target |-> Window(PrimaryWindow), priority |-> p,
              value |-> DefaultCamera] :
                p \in {IsizeMax - 10, IsizeMax - 9} }
      \cup { [target |-> t, priority |-> 0, value |-> Simulating] :
                t \in Targets \ {Window(PrimaryWindow)} }

\* RenderLayers::TOTAL_LAYERS
TOTAL_LAYERS == 32
post_processing_pass_layer == TOTAL_LAYERS - 1

Systems == {"setup", "update_percentages", "update_image"}

Range(s) == { s[i] : i \in 1..Len(s) }

\* the orders in which a query can yield the entities of S
RECURSIVE Orders(_)
Orders(S) ==
    IF S = {} THEN { <<>> }
    ELSE UNION { { <<c>> \o o : o \in Orders(S \ {c}) } : c \in S }

WorldInit ==
    /\ windows = [w \in WindowIds |-> InitialWindowSize]
    /\ images = << [size |-> UserImageSize] >>
    /\ meshes = 0
    /\ materials = << >>
    /\ tagged = [c \in Cams |-> FALSE]
    /\ cbc = [c \in Cams |-> [mode |-> "Normal", enabled |-> FALSE]]
    /\ camTarget = [c \in Cams |-> NoTarget]
    /\ camPriority = [c \in Cams |-> 0]
    /\ materialHandle = [c \in Cams |-> NoHandle]
    /\ showUi = [c \in Cams |-> TRUE]
    /\ fitToWindow = [c \in Cams |-> NoFit]
    /\ addedFlag = [c \in Cams |-> FALSE]
    /\ changedFlag = [c \in Cams |-> FALSE]
    /\ commands = << >>
    /\ draws = << >>
    /\ relays = << >>
    /\ resizeEvents = << >>
    /\ imageEvents = << >>
    /\ ran = {}
    /\ written = {}
    /\ valueChanged = [c \in Cams |-> FALSE]
    /\ panicked = "none"
    /\ panicCam = NoCam
    /\ nInputs = 0

TableIdle ==
    /\ tStart = "Normal"
    /\ tMode = "Normal"
    /\ tSteps = 0
    /\ tRow = "none"
    /\ tVec = << >>
    /\ tSum = 0

Init == WorldInit /\ TableIdle

----------------------------------------------------------------------------
(* setup_new_color_blindness_cameras *)

\* the entities the query with Added<ColorBlindnessCamera> yields
NewlyTaggedEveryFrame == { c \in Cams : tagged[c] }

NewlyTagged == { c \in Cams : tagged[c] /\ addedFlag[c] }

\* the size the camera is rendering to; NoSize when the expect() panics
TargetSizeOrDefault(target, imgs) ==
    IF target.kind = "Window"
    THEN IF target.id \in DOMAIN windows THEN windows[target.id] ELSE <<0, 0>>
    ELSE IF target.id \in DOMAIN imgs THEN imgs[target.id].size ELSE <<0, 0>>

TargetSize(target, imgs) ==
    IF target.kind = "Window"
    THEN IF target.id \in DOMAIN windows THEN windows[target.id] ELSE NoSize
    ELSE IF target.id \in DOMAIN imgs THEN imgs[target.id].size ELSE NoSize

\* the matrix the new material starts with
InitialPercentages(c) == percentages(cbc[c].mode)

\* camera.priority + 10 leaves the range of isize
PriorityOverflows(c) == camPriority[c] + 10 > IsizeMax

\* priority of the post-processing camera when the addition does not panic
RelayPriority(c) == WrappingAdd(camPriority[c], 10)

\* option_window_id: the window of the original target, or none for an image
option_window_id_of_any_target(original_target) == original_target.id

option_window_id(original_target) ==
    IF original_target.kind = "Window" THEN original_target.id
    ELSE NoFit.window_id

\* the target of the post-processing camera, given the clone of the target
\* taken before the redirection and the handle of the new image
relay_target_read_after_redirect(original_target, image_handle) ==
    Image(image_handle)

relay_target(original_target, image_handle) == original_target

\* one iteration of the loop, on the assets, targets and command queue in st
SetupCamera(c, overflow_checks, st) ==
    LET original_target == st.camTarget[c]
        size == TargetSize(original_target, st.images)
        image_handle == Len(st.images) + 1
        triangle_handle == st.meshes + 1
        material_handle == Len(st.materials) + 1
        priority == RelayPriority(c)
        insertHandle ==
            [type |-> "insert_material", entity |-> c,
             material |-> material_handle, show_ui |-> FALSE]
        insertFit ==
            [type |-> "insert_fit", entity |-> c, image |-> image_handle,
             window_id |-> option_window_id(original_target)]
        spawnDraw ==
            [type |-> "spawn_draw", mesh |-> triangle_handle,
             material |-> material_handle,
             layer |-> post_processing_pass_layer]
        spawnRelay ==
            [type |-> "spawn_relay", priority |-> priority,
             target |-> relay_target(original_target, image_handle),
             layer |-> post_processing_pass_layer]
        queued ==
            st.commands \o << insertHandle >>
              \o (IF option_window_id(original_target) # NoFit.window_id
                  THEN << insertFit >> ELSE << >>)
              \o << spawnDraw >>
        built ==
            [st EXCEPT
               !.images = Append(@, [size |-> size]),
               !.meshes = @ + 2,
               !.materials =
                   Append(@, [source_image |-> image_handle,
                              percentages |-> InitialPercentages(c)]),
               !.camTarget = [@ EXCEPT ![c] = Image(image_handle)],
               !.commands = queued]
    IN  IF size = NoSize
        THEN [st EXCEPT
                !.panicked = IF original_target.kind = "Window"
                             THEN "window_not_found" ELSE "image_not_found",
                !.panicCam = c]
        ELSE IF PriorityOverflows(c) /\ overflow_checks
        THEN [built EXCEPT !.panicked = "overflow", !.panicCam = c]
        ELSE [built EXCEPT !.commands = Append(@, spawnRelay)]

\* the for loop over the query, which a panic ends
RECURSIVE SetupLoop(_, _, _)
SetupLoop(order, overflow_checks, st) ==
    IF order = << >> \/ st.panicked # "none"
    THEN st
    ELSE SetupLoop(Tail(order), overflow_checks,
                   SetupCamera(Head(order), overflow_checks, st))

setup_new_color_blindness_cameras ==
    /\ panicked = "none"
    /\ ran = {}
    /\ \E order \in Orders(NewlyTagged), overflow_checks \in BOOLEAN :
         LET st == SetupLoop(order, overflow_checks,
                       [images |-> images, meshes |-> meshes,
                        materials |-> materials, camTarget |-> camTarget,
                        commands |-> commands, panicked |-> "none",
                        panicCam |-> NoCam])
         IN  /\ images' = st.images
             /\ meshes' = st.meshes
             /\ materials' = st.materials
             /\ camTarget' = st.camTarget
             /\ commands' = st.commands
             /\ panicked' = st.panicked
             /\ panicCam' = st.panicCam
    /\ addedFlag' = [c \in Cams |-> FALSE]
    /\ ran' = ran \cup {"setup"}
    /\ UNCHANGED << windows, tagged, cbc, camPriority,
                    materialHandle, showUi, fitToWindow, changedFlag, draws,
                    relays, resizeEvents, imageEvents, written, valueChanged >>
    /\ UNCHANGED nInputs
    /\ UNCHANGED tableVars

----------------------------------------------------------------------------
(* update_percentages *)

ChangedCamerasWithoutFilter ==
    { c \in Cams : tagged[c] /\ materialHandle[c] # NoHandle }

\* the entities the query with Changed<ColorBlindnessCamera> yields
ChangedCameras ==
    { c \in Cams : tagged[c] /\ materialHandle[c] # NoHandle /\ changedFlag[c] }

EffectiveModeIgnoringEnabled(c) == cbc[c].mode

EffectiveMode(c) == IF cbc[c].enabled THEN cbc[c].mode ELSE "Normal"

UpdateCameraSkippingMissing(c, st) ==
    LET handle == materialHandle[c]
    IN  IF handle \notin DOMAIN st.materials \/ st.materials[handle] = Removed
        THEN st
        ELSE [st EXCEPT
                !.materials =
                    [@ EXCEPT ![handle].percentages = percentages(EffectiveMode(c))],
                !.written = @ \cup {c}]

\* one iteration of the loop, on the materials and the panic state in st
UpdateCamera(c, st) ==
    LET handle == materialHandle[c]
    IN  IF handle \notin DOMAIN st.materials \/ st.materials[handle] = Removed
        THEN [st EXCEPT !.panicked = "material_not_found", !.panicCam = c]
        ELSE [st EXCEPT
                !.materials =
                    [@ EXCEPT ![handle].percentages = percentages(EffectiveMode(c))],
                !.written = @ \cup {c}]

RECURSIVE UpdateLoop(_, _)
UpdateLoop(order, st) ==
    IF order = << >> \/ st.panicked # "none"
    THEN st
    ELSE UpdateLoop(Tail(order), UpdateCamera(Head(order), st))

update_percentages ==
    /\ panicked = "none"
    /\ ran = {"setup"}
    /\ \E order \in Orders(ChangedCameras) :
         LET st == UpdateLoop(order,
                       [materials |-> materials, written |-> {},
                        panicked |-> "none", panicCam |-> NoCam])
         IN  /\ materials' = st.materials
             /\ written' = st.written
             /\ panicked' = st.panicked
             /\ panicCam' = st.panicCam
    /\ changedFlag' = [c \in Cams |-> FALSE]
    /\ valueChanged' = [c \in Cams |-> FALSE]
    /\ ran' = ran \cup {"update_percentages"}
    /\ UNCHANGED << windows, images, meshes, tagged, cbc,
                    camTarget, camPriority, materialHandle, showUi, fitToWindow,
                    addedFlag, commands, draws, relays, resizeEvents,
                    imageEvents >>
    /\ UNCHANGED nInputs
    /\ UNCHANGED tableVars

----------------------------------------------------------------------------
(* update_image_to_window_size *)

\* the entities the query for FitToWindowSize yields
FitCameras == { c \in Cams : fitToWindow[c] # NoFit }

\* does this resize event make the system resize the images
EventSelected(event) == event = PrimaryWindow

\* the inner loop: resize the image of each FitToWindowSize, send Modified
RECURSIVE ResizeAll(_, _)
ResizeAll(order, st) ==
    IF order = << >>
    THEN st
    ELSE LET fit == fitToWindow[Head(order)]
             size == windows[fit.window_id]
         IN  ResizeAll(Tail(order),
                 [st EXCEPT !.images = [@ EXCEPT ![fit.image].size = size],
                            !.sent = Append(@, fit.image)])

\* the outer loop over the resize events
RECURSIVE ResizeLoop(_, _, _)
ResizeLoop(events, order, st) ==
    IF events = << >>
    THEN st
    ELSE ResizeLoop(Tail(events), order,
             IF EventSelected(Head(events)) THEN ResizeAll(order, st) ELSE st)

update_image_to_window_size ==
    /\ panicked = "none"
    /\ ran = {"setup", "update_percentages"}
    /\ \E order \in Orders(FitCameras) :
         LET st == ResizeLoop(resizeEvents, order,
                       [images |-> images, sent |-> << >>])
         IN  /\ images' = st.images
             /\ imageEvents' = st.sent
    /\ resizeEvents' = << >>
    /\ ran' = ran \cup {"update_image"}
    /\ UNCHANGED << windows, meshes, materials, tagged, cbc,
                    camTarget, camPriority, materialHandle, showUi, fitToWindow,
                    addedFlag, changedFlag, commands, draws, relays, written,
                    valueChanged, panicked, panicCam >>
    /\ UNCHANGED nInputs
    /\ UNCHANGED tableVars

----------------------------------------------------------------------------
(* The end of the stage: the queued commands are applied in order *)

ApplyCommand(cmd, st) ==
    CASE cmd.type = "insert_material" ->
           [st EXCEPT !.materialHandle = [@ EXCEPT ![cmd.entity] = cmd.material],
                      !.showUi = [@ EXCEPT ![cmd.entity] = cmd.show_ui]]
      [] cmd.type = "insert_fit" ->
           [st EXCEPT !.fitToWindow =
                [@ EXCEPT ![cmd.entity] =
                     [image |-> cmd.image, window_id |-> cmd.window_id]]]
      [] cmd.type = "spawn_draw" ->
           [st EXCEPT !.draws =
                Append(@, [mesh |-> cmd.mesh, material |-> cmd.material,
                           layer |-> cmd.layer])]
      [] cmd.type = "spawn_relay" ->
           [st EXCEPT !.relays =
                Append(@, [priority |-> cmd.priority, target |-> cmd.target,
                           layer |-> cmd.layer])]

RECURSIVE ApplyAll(_, _)
ApplyAll(cmds, st) ==
    IF cmds = << >> THEN st ELSE ApplyAll(Tail(cmds), ApplyCommand(Head(cmds), st))

ApplyCommands ==
    /\ panicked = "none"
    /\ ran = Systems
    /\ LET st == ApplyAll(commands,
                     [materialHandle |-> materialHandle, showUi |-> showUi,
                      fitToWindow |-> fitToWindow, draws |-> draws,
                      relays |-> relays])
       IN  /\ materialHandle' = st.materialHandle
           /\ showUi' = st.showUi
           /\ fitToWindow' = st.fitToWindow
           /\ draws' = st.draws
           /\ relays' = st.relays
    /\ commands' = << >>
    /\ imageEvents' = << >>
    /\ written' = {}
    /\ ran' = {}
    /\ UNCHANGED << windows, images, meshes, materials, tagged,
                    cbc, camTarget, camPriority, addedFlag, changedFlag,
                    resizeEvents, valueChanged, panicked, panicCam >>
    /\ UNCHANGED nInputs
    /\ UNCHANGED tableVars

----------------------------------------------------------------------------
(* What the application and the window system do *)

\* the entities are tagged in a fixed order: which entity is which is arbitrary
CamBefore(d, c) == d = "camA" /\ c = "camB"

\* the application gives a camera entity the ColorBlindnessCamera component
AddCamera(c, target, priority, value) ==
    /\ panicked = "none"
    /\ ran = {}
    /\ ~tagged[c]
    /\ \A d \in Cams : CamBefore(d, c) => tagged[d]
    /\ tagged' = [tagged EXCEPT ![c] = TRUE]
    /\ cbc' = [cbc EXCEPT ![c] = value]
    /\ camTarget' = [camTarget EXCEPT ![c] = target]
    /\ camPriority' = [camPriority EXCEPT ![c] = priority]
    /\ addedFlag' = [addedFlag EXCEPT ![c] = TRUE]
    /\ changedFlag' = [changedFlag EXCEPT ![c] = TRUE]
    /\ valueChanged' = [valueChanged EXCEPT ![c] = TRUE]
    /\ UNCHANGED << windows, images, meshes, materials,
                    materialHandle, showUi, fitToWindow, commands, draws, relays,
                    resizeEvents, imageEvents, ran, written, panicked,
                    panicCam >>
    /\ UNCHANGED nInputs
    /\ UNCHANGED tableVars

\* an application system writes the component through its &mut reference,
\* before setup runs or between setup and update_percentages (a write after
\* update_percentages acts as a write before the setup of the next frame)
SetComponent(c, value) ==
    /\ panicked = "none"
    /\ tagged[c]
    /\ ran \in {{}, {"setup"}}
    /\ nInputs < MaxInputs
    /\ nInputs' = nInputs + 1
    /\ cbc' = [cbc EXCEPT ![c] = value]
    /\ changedFlag' = [changedFlag EXCEPT ![c] = TRUE]
    /\ valueChanged' = [valueChanged EXCEPT ![c] = @ \/ value # cbc[c]]
    /\ UNCHANGED << windows, images, meshes, materials, tagged,
                    camTarget, camPriority, materialHandle, showUi, fitToWindow,
                    addedFlag, commands, draws, relays, resizeEvents,
                    imageEvents, ran, written, panicked, panicCam >>
    /\ UNCHANGED tableVars

\* the window system resizes a window and reports it before the next frame
ResizeWindow(w, size) ==
    /\ panicked = "none"
    /\ ran = {}
    /\ nInputs < MaxInputs
    /\ nInputs' = nInputs + 1
    /\ size # windows[w]
    /\ windows' = [windows EXCEPT ![w] = size]
    /\ resizeEvents' = Append(resizeEvents, w)
    /\ UNCHANGED << images, meshes, materials, tagged, cbc,
                    camTarget, camPriority, materialHandle, showUi, fitToWindow,
                    addedFlag, changedFlag, commands, draws, relays, imageEvents,
                    ran, written, valueChanged, panicked, panicCam >>
    /\ UNCHANGED tableVars

\* the application removes a material of the pass from Assets
RemoveMaterial(h) ==
    /\ panicked = "none"
    /\ ran = {}
    /\ h \in DOMAIN materials
    /\ materials[h] # Removed
    /\ nInputs < MaxInputs
    /\ nInputs' = nInputs + 1
    /\ materials' = [materials EXCEPT ![h] = Removed]
    /\ UNCHANGED << windows, images, meshes, tagged, cbc,
                    camTarget, camPriority, materialHandle, showUi, fitToWindow,
                    addedFlag, changedFlag, commands, draws, relays,
                    resizeEvents, imageEvents, ran, written, valueChanged, panicked,
                    panicCam >>
    /\ UNCHANGED tableVars

Next ==
    \/ setup_new_color_blindness_cameras
    \/ update_percentages
    \/ update_image_to_window_size
    \/ ApplyCommands
    \/ \E c \in Cams, in \in AddInputs :
          AddCamera(c, in.target, in.priority, in.value)
    \/ \E c \in Cams, value \in CameraValues : SetComponent(c, value)
    \/ \E w \in WindowIds, size \in Sizes : ResizeWindow(w, size)
    \/ \E h \in 1..Cardinality(Cams) : RemoveMaterial(h)

Spec == Init /\ [][Next]_vars

----------------------------------------------------------------------------
(* Evaluation of the mode table: a starting mode is cycled, and the rows of *)
(* the matrix of the mode reached are read and summed                       *)

Rows == {"red", "green", "blue"}

TableInit ==
    /\ WorldInit
    /\ tStart \in ColorBlindnessMode
    /\ tMode = tStart
    /\ tSteps = 0
    /\ tRow = "none"
    /\ tVec = << >>
    /\ tSum = 0

Cycle ==
    /\ tSteps < MaxSteps
    /\ tMode' = cycle(tMode)
    /\ tSteps' = tSteps + 1
    /\ tRow' = "none"
    /\ tVec' = << >>
    /\ tSum' = 0
    /\ UNCHANGED tStart
    /\ UNCHANGED worldVars

MixRow(r) ==
    /\ tRow' = r
    /\ tVec' = percentages(tMode)[r]
    /\ tSum' = RowSum(percentages(tMode)[r])
    /\ UNCHANGED << tStart, tMode, tSteps >>
    /\ UNCHANGED worldVars

TableNext == Cycle \/ \E r \in Rows : MixRow(r)

TableSpec == TableInit /\ [][TableNext]_vars

----------------------------------------------------------------------------
(* Vocabulary of the claims *)

\* the commands of setup were applied to the camera: it carries its material
SetUp(c) == tagged[c] /\ materialHandle[c] # NoHandle

\* the material of a set-up camera still resolves in Assets
MaterialLive(c) ==
    /\ materialHandle[c] \in DOMAIN materials
    /\ materials[materialHandle[c]] # Removed

\* the camera renders to an image the pass created
Redirected(c) == camTarget[c].kind = "Image" /\ camTarget[c].id > UserImage

\* the target of the camera resolves to no window and no image
Unresolved(c) ==
    \/ camTarget[c].kind = "Window" /\ camTarget[c].id \notin DOMAIN windows
    \/ camTarget[c].kind = "Image" /\ camTarget[c].id \notin DOMAIN images

\* the full-screen draw and the post-processing camera of a camera exist
DrawAndRelayExist(c) ==
    /\ materialHandle[c] # NoHandle
    /\ \E i \in 1..Len(draws) :
         draws[i].material = materialHandle[c] /\ i <= Len(relays)

\* the frame is over: the three systems ran and their commands were applied
FrameEnd == ran = {} /\ panicked = "none"

\* the steps of the three systems
SetupStep == ran = {} /\ ran' = {"setup"}
ModeSyncStep == ran = {"setup"} /\ ran' = {"setup", "update_percentages"}
ResizeStep == ran = {"setup", "update_percentages"} /\ ran' = Systems

----------------------------------------------------------------------------
(* The claims *)

\* C1: at the end of every frame the matrix in the material of every set-up
\* camera is percentages(mode) when enabled and the Normal matrix when not,
\* whatever mode and enabled the camera was added with.
C1_MaterialFollowsEffectiveMode ==
    FrameEnd =>
      \A c \in Cams :
        (SetUp(c) /\ MaterialLive(c)) =>
          materials[materialHandle[c]].percentages
            = percentages(IF cbc[c].enabled THEN cbc[c].mode ELSE "Normal")

\* C2: when the resize step reads a resize event for the window a set-up
\* camera targeted, primary or not, the offscreen texture gets the physical
\* size of that window and a Modified event is sent for it.
C2_ResizeOfOwnWindowReachesTexture ==
    [][ ResizeStep =>
          \A c \in Cams :
            (fitToWindow[c] # NoFit
               /\ fitToWindow[c].window_id \in Range(resizeEvents)) =>
              /\ images'[fitToWindow[c].image].size
                   = windows[fitToWindow[c].window_id]
              /\ fitToWindow[c].image \in Range(imageEvents') ]_vars

\* C3: when the resize step reads only resize events for other windows than
\* the one a camera targeted, it leaves the offscreen texture of that camera
\* as it was and sends no Modified event for it.
C3_ResizeOfOtherWindowIgnored ==
    [][ ResizeStep =>
          \A c \in Cams :
            (fitToWindow[c] # NoFit
               /\ fitToWindow[c].window_id \notin Range(resizeEvents)) =>
              /\ images'[fitToWindow[c].image] = images[fitToWindow[c].image]
              /\ fitToWindow[c].image \notin Range(imageEvents') ]_vars

\* C4: setup runs once for each tagged camera: the assets of the pass are one
\* texture, two meshes and one material per camera the setup system has
\* seen, however many frames ran since, and when the frame ends each of
\* these cameras has one full-screen draw and there is one relay camera per
\* camera.
C4_SetupOncePerCamera ==
    LET seen == { c \in Cams : tagged[c] /\ ~addedFlag[c] }
    IN  panicked = "none" =>
          /\ Len(images) = 1 + Cardinality(seen)
          /\ meshes = 2 * Cardinality(seen)
          /\ Len(materials) = Cardinality(seen)
          /\ ran = {} =>
               /\ Len(draws) = Cardinality(seen)
               /\ Len(relays) = Cardinality(seen)
               /\ \A c \in seen :
                    /\ SetUp(c)
                    /\ Redirected(c)
                    /\ Cardinality({ i \in 1..Len(draws) :
                                       draws[i].material = materialHandle[c] }) = 1
               /\ \A c, d \in seen :
                    c # d => /\ materialHandle[c] # materialHandle[d]
                             /\ camTarget[c] # camTarget[d]

C4_Witness ==
    /\ panicked = "none"
    /\ "setup" \in ran
    /\ nInputs > 0
    /\ SetUp("camA")
    /\ tagged["camB"] /\ ~SetUp("camB")
    /\ cbc["camA"] # DefaultCamera

\* C5: a run of Mode Sync gives the material of every set-up camera whose
\* component was written the Normal matrix when enabled is false and
\* percentages(mode) when it is true; every change of mode or enabled marks
\* the component, and the mark stays until Mode Sync runs, which it does in
\* every frame.
C5_ModeSyncAppliesEffectiveMode ==
    [][ /\ (ModeSyncStep /\ panicked' = "none") =>
              \A c \in Cams :
                (SetUp(c) /\ changedFlag[c]) =>
                  /\ c \in written'
                  /\ materials'[materialHandle[c]].percentages
                       = percentages(IF cbc[c].enabled THEN cbc[c].mode
                                     ELSE "Normal")
        /\ \A c \in Cams :
             /\ (tagged[c] /\ cbc'[c] # cbc[c]) => changedFlag'[c]
             /\ (changedFlag[c] /\ ~changedFlag'[c]) => ModeSyncStep
        /\ (ran # {} /\ ran' = {}) => ran = Systems ]_vars

C5_Witness ==
    \E c \in Cams :
      /\ panicked = "none"
      /\ SetUp(c)
      /\ c \in written
      /\ cbc[c].mode = "Protanopia" /\ ~cbc[c].enabled
      /\ materials[materialHandle[c]].percentages = percentages("Normal")

\* C6: Mode Sync writes the material of a camera only when mode or enabled
\* changed since its previous run; a component written with the values it
\* already had causes no write.
C6_NoWriteWithoutChange ==
    [][ ModeSyncStep => \A c \in written' : valueChanged[c] ]_vars

\* C7: for every pair setup constructed, the priority of the relay camera is
\* the priority of the tagged camera plus 10 and is greater than it.
C7_RelayPriorityAboveCamera ==
    \A c \in Cams :
      \A i \in 1..Len(relays) :
        (SetUp(c) /\ i <= Len(draws) /\ draws[i].material = materialHandle[c]) =>
          /\ relays[i].priority = camPriority[c] + 10
          /\ relays[i].priority > camPriority[c]

\* C8: after a run of the setup step, completed or ended by a panic, no
\* camera renders to an offscreen texture of the pass without having its
\* full-screen draw and relay camera.
C8_NoPartialPipeline ==
    (ran = {} \/ panicked # "none") =>
      \A c \in Cams : Redirected(c) => DrawAndRelayExist(c)

\* C9: when setup reaches a camera whose window or image does not resolve,
\* the run ends in a panic, the target of that camera is as it was, no
\* command is queued for it, and the textures, meshes and materials added in
\* the run are those of the cameras redirected before it.
C9_UnresolvedTargetIsFatal ==
    [][ SetupStep =>
          \A c \in Cams :
            (tagged[c] /\ addedFlag[c] /\ Unresolved(c)) =>
              LET redirected == { d \in Cams : camTarget'[d] # camTarget[d] }
              IN  /\ panicked' # "none"
                  /\ camTarget'[c] = camTarget[c]
                  /\ c \notin redirected
                  /\ Len(images') = Len(images) + Cardinality(redirected)
                  /\ meshes' = meshes + 2 * Cardinality(redirected)
                  /\ Len(materials') = Len(materials) + Cardinality(redirected)
                  /\ \A i \in 1..Len(commands') :
                       "entity" \in DOMAIN commands'[i] => commands'[i].entity # c
                  /\ materialHandle'[c] = NoHandle ]_vars

C9_Witness ==
    /\ panicked \in {"window_not_found", "image_not_found"}
    /\ panicCam \in Cams
    /\ Unresolved(panicCam)
    /\ ~Redirected(panicCam)
    /\ \E d \in Cams : d # panicCam /\ Redirected(d)

\* C10: for each of the 9 modes, each of the three rows of percentages(mode)
\* sums to a value between 0 and 1.
C10_RowSumsWithinOne ==
    tRow \in Rows => (0 <= tSum /\ tSum <= One)

\* C11: cycle is a single cycle through the 9 modes: from any starting mode,
\* k applications are back on the start exactly when k is a multiple of 9
\* (so not for k = 1..8, and for k = 9), every application yields another
\* mode of the enumeration, and Achromatomaly is followed by Normal.
C11_CycleIsOneRingOfNine ==
    /\ [](tMode = tStart <=> tSteps % 9 = 0)
    /\ [][ tSteps' = tSteps + 1 =>
             /\ tMode' \in ColorBlindnessMode
             /\ tMode' # tMode
             /\ tMode = "Achromatomaly" => tMode' = "Normal" ]_vars

C11_Witness ==
    /\ tStart = "Tritanopia"
    /\ tSteps = 9
    /\ tMode = "Tritanopia"

\* C12: the rows of percentages(Normal) are red = (1,0,0), green = (0,1,0)
\* and blue = (0,0,1), and the default ColorBlindnessCamera has mode Normal.
C12_NormalIsIdentityAndDefault ==
    /\ DefaultCamera.mode = "Normal"
    /\ (tMode = "Normal" /\ tRow = "red") => tVec = <<100000, 0, 0>>
    /\ (tMode = "Normal" /\ tRow = "green") => tVec = <<0, 100000, 0>>
    /\ (tMode = "Normal" /\ tRow = "blue") => tVec = <<0, 0, 100000>>

C12_Witness ==
    /\ tMode = "Normal"
    /\ tSteps = 9
    /\ tRow = "blue"
    /\ tVec = <<0, 0, 100000>>

\* C13: each relay camera shares its render layer with exactly one entity,
\* the full-screen draw spawned with it, however many cameras are tagged.
C13_RelaySeesOnlyOwnDraw ==
    \A i \in 1..Len(relays) :
      { j \in 1..Len(draws) : draws[j].layer = relays[i].layer } = {i}

\* C14: a setup run that completes redirects every newly tagged camera to an
\* image it has just added, gives the material it queues for the camera that
\* image as source, queues a relay camera whose target is the target the
\* camera had before the run, and leaves priority, mode and enabled alone;
\* the end of the stage spawns the relay cameras with the queued targets and
\* inserts the queued material handles.
C14_RelayTakesOriginalTarget ==
    [][ /\ (SetupStep /\ panicked' = "none") =>
             \A c \in Cams :
               (tagged[c] /\ addedFlag[c]) =>
                 /\ camTarget'[c].kind = "Image"
                 /\ camTarget'[c].id \in (Len(images) + 1)..Len(images')
                 /\ camPriority'[c] = camPriority[c]
                 /\ cbc'[c] = cbc[c]
                 /\ \E i \in 1..Len(commands') :
                      /\ commands'[i].type = "insert_material"
                      /\ commands'[i].entity = c
                      /\ materials'[commands'[i].material].source_image
                           = camTarget'[c].id
                      /\ \E j \in (i + 1)..(Len(commands') - 1) :
                           /\ commands'[j].type = "spawn_draw"
                           /\ commands'[j].material = commands'[i].material
                           /\ commands'[j + 1].type = "spawn_relay"
                           /\ commands'[j + 1].target = camTarget[c]
        /\ (ran = Systems /\ ran' = {}) =>
             LET spawned == SelectSeq(commands, LAMBDA cmd : cmd.type = "spawn_relay")
             IN  /\ Len(relays') = Len(relays) + Len(spawned)
                 /\ \A k \in 1..Len(spawned) :
                      relays'[Len(relays) + k].target = spawned[k].target
                 /\ \A i \in 1..Len(commands) :
                      commands[i].type = "insert_material" =>
                        materialHandle'[commands[i].entity] = commands[i].material
                 /\ camTarget' = camTarget
                 /\ camPriority' = camPriority
                 /\ cbc' = cbc ]_vars

C14_Witness ==
    \E c \in Cams :
      \E i \in 1..Len(relays) :
        /\ FrameEnd
        /\ SetUp(c)
        /\ draws[i].material = materialHandle[c]
        /\ relays[i].target = Image(UserImage)
        /\ Redirected(c)
        /\ MaterialLive(c)
        /\ materials[materialHandle[c]].source_image = camTarget[c].id

\* C15: the target of every relay camera differs from the offscreen texture
\* that the material of its full-screen draw samples, which is the target of
\* its tagged camera.
C15_RelayNeverWritesItsSource ==
    \A i \in 1..Len(relays) :
      /\ materials[draws[i].material] # Removed =>
           relays[i].target # Image(materials[draws[i].material].source_image)
      /\ \A c \in Cams :
           (SetUp(c) /\ draws[i].material = materialHandle[c]) =>
             relays[i].target # camTarget[c]

C15_Witness ==
    \E c \in Cams :
      \E i \in 1..Len(relays) :
        /\ SetUp(c)
        /\ draws[i].material = materialHandle[c]
        /\ relays[i].target.kind = "Image"
        /\ camTarget[c].kind = "Image"
        /\ materials[draws[i].material] # Removed

\* C16: set-up cameras have distinct materials, and a run of mode sync leaves
\* the material of every set-up camera whose component was not changed exactly
\* as it was, writes to the material of a changed camera the matrix of that
\* camera's own effective mode, and changes the source texture of no material.
C16_CamerasResolveIndependently ==
    [][ ModeSyncStep =>
          /\ \A c, d \in Cams :
               (c # d /\ SetUp(c) /\ SetUp(d)) =>
                 materialHandle[c] # materialHandle[d]
          /\ \A d \in Cams :
               (SetUp(d) /\ ~changedFlag[d]) =>
                 /\ materials'[materialHandle[d]] = materials[materialHandle[d]]
                 /\ d \notin written'
          /\ \A c \in Cams :
               (SetUp(c) /\ changedFlag[c] /\ c \in written') =>
                 materials'[materialHandle[c]].percentages
                   = percentages(IF cbc[c].enabled THEN cbc[c].mode ELSE "Normal")
          /\ \A h \in DOMAIN materials :
               materials'[h].source_image = materials[h].source_image ]_vars

C16_Witness ==
    \E c, d \in Cams :
      /\ c # d
      /\ ran = {"setup", "update_percentages"}
      /\ SetUp(c)
      /\ SetUp(d)
      /\ MaterialLive(d)
      /\ written = {c}
      /\ cbc[c] # cbc[d]
      /\ materials[materialHandle[c]].percentages
           # materials[materialHandle[d]].percentages

\* C17: a set-up camera whose relay camera has an image as target (the camera
\* was tagged while rendering to an image) has no FitToWindowSize, its
\* offscreen texture keeps the size of the source image, and no modified
\* event is ever sent for that texture.
C17_ImageTargetNeverResized ==
    \A c \in Cams :
      \A i \in 1..Len(relays) :
        (SetUp(c) /\ draws[i].material = materialHandle[c]
                  /\ relays[i].target.kind = "Image") =>
          /\ fitToWindow[c] = NoFit
          /\ images[camTarget[c].id].size = images[relays[i].target.id].size
          /\ images[camTarget[c].id].size = UserImageSize
          /\ \A k \in 1..Len(imageEvents) : imageEvents[k] # camTarget[c].id

C17_Witness ==
    \E c \in Cams :
      \E i \in 1..Len(relays) :
        /\ SetUp(c)
        /\ draws[i].material = materialHandle[c]
        /\ relays[i].target.kind = "Image"
        /\ ran = Systems
        /\ imageEvents # << >>
        /\ windows[PrimaryWindow] # UserImageSize

\* C18: a run of mode sync in which some set-up camera has a changed component
\* and a material handle that does not resolve ends in the fatal state, with a
\* camera of that kind as the one that failed.
C18_MissingMaterialIsFatal ==
    [][ ( /\ ModeSyncStep
          /\ \E c \in Cams : SetUp(c) /\ changedFlag[c] /\ ~MaterialLive(c) ) =>
            /\ panicked' = "material_not_found"
            /\ panicCam' \in Cams
            /\ changedFlag[panicCam']
            /\ ~MaterialLive(panicCam') ]_vars

C18_Witness ==
    /\ panicked = "material_not_found"
    /\ panicCam \in Cams
    /\ SetUp(panicCam)
    /\ ~MaterialLive(panicCam)
    /\ ran = {"setup", "update_percentages"}

====
